---- MODULE Spec2Model ----
(***************************************************************************)
(* Model of the OpenAI-compatible gateway handlers of CLIProxyAPI:         *)
(*   - sdk/api/handlers/openai/openai_handlers.go  (chat and legacy        *)
(*     Completions endpoints, their stream relays)                         *)
(*   - the Responses endpoint handler (forwardResponsesStream, ...)        *)
(*   - the Gemini JSON-Schema sanitizer (SanitizeSchemaForGemini)          *)
(*                                                                         *)
(* Spec     : one HTTP request served by one of the three endpoints, with  *)
(*            the execution gateway and the client as the environment.     *)
(* SpecSan  : the schema sanitizer applied to inputs of a bounded pool.    *)
(***************************************************************************)
EXTENDS Integers, Sequences, FiniteSets, TLC

(***************************************************************************)
(* Bounds of the model.                                                    *)
(***************************************************************************)
\* chunks the backend sends on the data channel in one run
MaxChunks == 3
\* capacity of the data channel (a pending send counts as one slot)
DataCap == 2
\* capacity of the error channel (a pending send counts as one slot)
ErrCap == 1
\* saturation of the counter of receives from the closed error channel
MaxSpin == 2
\* nesting of properties / items / arrays around the schemas given to the
\* sanitizer
MaxNest == 1

(***************************************************************************)
(* Values.                                                                 *)
(***************************************************************************)
\* the nil error (also what a cancel call without argument passes on)
NilErr == "nil"

\* errors of the inbound request context (context.Canceled / DeadlineExceeded)
CtxErrs == {"context canceled", "context deadline exceeded"}

\* *interfaces.ErrorMessage: the nil pointer, or a message with a status code
\* and an error (which may itself be nil)
NilMsg == [isNil |-> TRUE, StatusCode |-> 0, Error |-> NilErr]

ErrMsgs ==
  { [isNil |-> FALSE, StatusCode |-> 502, Error |-> "upstream failed"],
    [isNil |-> FALSE, StatusCode |-> 429, Error |-> "rate limited"],
    [isNil |-> FALSE, StatusCode |-> 500, Error |-> NilErr] }

\* gjson results, by what Exists(), String() and IntOf() return for them
Absent == [t |-> "absent", s |-> "", n |-> 0]
JNull == [t |-> "null", s |-> "", n |-> 0]
JStr(x) == [t |-> "string", s |-> x, n |-> 0]
JNum(x, i) == [t |-> "number", s |-> x, n |-> i]
Exists(r) == r.t # "absent"
String(r) == r.s
IntOf(r) == r.n

\* one element of "choices" of a chat response or chat stream chunk:
\* message/delta say whether the object is there, mcontent/content are
\* message.content and delta.content
Choice(ix, msg, mc, dl, dc, fr, lp) ==
  [index |-> ix, message |-> msg, mcontent |-> mc, delta |-> dl,
   content |-> dc, finish_reason |-> fr, logprobs |-> lp]

\* payloads of the chunks the backend sends: a content delta, an empty delta
\* (heartbeat), and a final chunk that starts with an "event:" line
TextPayload ==
  [event |-> FALSE, id |-> JStr("c1"), created |-> JNum("17", 17),
   model |-> JStr("m"),
   choices |-> << Choice(JNum("0", 0), FALSE, Absent, TRUE, JStr("Hi"),
                         JNull, Absent) >>]

EmptyPayload ==
  [event |-> FALSE, id |-> JStr("c1"), created |-> Absent,
   model |-> JStr("m"),
   choices |-> << Choice(JNum("0", 0), FALSE, Absent, TRUE, Absent,
                         Absent, Absent) >>]

StopPayload ==
  [event |-> TRUE, id |-> Absent, created |-> JNum("17", 17),
   model |-> Absent,
   choices |-> << Choice(JNum("0", 0), FALSE, Absent, TRUE, JStr(""),
                         JStr("stop"), Absent) >>]

Payloads == {TextPayload, EmptyPayload, StopPayload}

\* the chunk with payload p sent as the k-th of the run
MkChunk(k, p) ==
  [seq |-> k, event |-> p.event, id |-> p.id, created |-> p.created,
   model |-> p.model, choices |-> p.choices]

\* responses and errors of the non-streaming execution gateway
Responses1 ==
  [id |-> JStr("r1"), created |-> JNum("17", 17), model |-> JStr("m"),
   usage |-> Absent,
   choices |-> << Choice(JNum("0", 0), TRUE, JStr("hi"), FALSE, Absent,
                         JStr("stop"), Absent) >>]

Responses2 ==
  [id |-> Absent, created |-> Absent, model |-> Absent, usage |-> JStr("{}"),
   choices |-> << >>]

RespPool == {Responses1, Responses2}

(***************************************************************************)
(* Protocol adapters (legacy Completions <-> Chat Completions).            *)
(***************************************************************************)
\* nil []byte: the skip signal of the stream-chunk adapter
NilBytes == [nil |-> TRUE]

\* hasContent of convertChatCompletionsStreamChunkToCompletions
ChunkHasContent(chunk) ==
  \E i \in 1..Len(chunk.choices) :
     LET ch == chunk.choices[i] IN
       \/ ch.delta /\ Exists(ch.content) /\ String(ch.content) # ""
       \/ /\ Exists(ch.finish_reason)
          /\ String(ch.finish_reason) # ""
          /\ String(ch.finish_reason) # "null"

StreamChoiceToCompletions(ch) ==
  [index |-> IntOf(ch.index),
   text |-> IF ch.delta /\ Exists(ch.content) /\ String(ch.content) # ""
            THEN JStr(String(ch.content)) ELSE JStr(""),
   finish_reason |->
      IF Exists(ch.finish_reason) /\ String(ch.finish_reason) # "null"
      THEN JStr(String(ch.finish_reason)) ELSE Absent,
   logprobs |-> ch.logprobs]

convertChatCompletionsStreamChunkToCompletions(chunk) ==
  IF ~ChunkHasContent(chunk) THEN NilBytes
  ELSE [nil |-> FALSE,
        seq |-> chunk.seq,
        id |-> IF Exists(chunk.id) THEN String(chunk.id) ELSE "",
        object |-> "text_completion",
        created |-> IF Exists(chunk.created) THEN IntOf(chunk.created) ELSE 0,
        model |-> IF Exists(chunk.model) THEN String(chunk.model) ELSE "",
        choices |-> [i \in 1..Len(chunk.choices) |->
                       StreamChoiceToCompletions(chunk.choices[i])]]

ResponseChoiceToCompletions(ch) ==
  [index |-> IntOf(ch.index),
   text |-> IF ch.message
            THEN (IF Exists(ch.mcontent) THEN JStr(String(ch.mcontent))
                  ELSE Absent)
            ELSE IF ch.delta /\ Exists(ch.content)
                 THEN JStr(String(ch.content)) ELSE Absent,
   finish_reason |-> IF Exists(ch.finish_reason)
                     THEN JStr(String(ch.finish_reason)) ELSE Absent,
   logprobs |-> ch.logprobs]

\* faulty variant: only the choices that have a message are converted
convertChatCompletionsResponseToCompletions_MessageOnly(resp) ==
  LET kept == SelectSeq(resp.choices, LAMBDA ch : ch.message) IN
  [id |-> IF Exists(resp.id) THEN String(resp.id) ELSE "",
   object |-> "text_completion",
   created |-> IF Exists(resp.created) THEN IntOf(resp.created) ELSE 0,
   model |-> IF Exists(resp.model) THEN String(resp.model) ELSE "",
   usage |-> resp.usage,
   choices |-> [i \in 1..Len(kept) |-> ResponseChoiceToCompletions(kept[i])]]

convertChatCompletionsResponseToCompletions(resp) ==
  [id |-> IF Exists(resp.id) THEN String(resp.id) ELSE "",
   object |-> "text_completion",
   created |-> IF Exists(resp.created) THEN IntOf(resp.created) ELSE 0,
   model |-> IF Exists(resp.model) THEN String(resp.model) ELSE "",
   usage |-> resp.usage,
   choices |-> [i \in 1..Len(resp.choices) |->
                  ResponseChoiceToCompletions(resp.choices[i])]]

\* The request adapter.
JTrue == [t |-> "true", s |-> "true", n |-> 1]
JFalse == [t |-> "false", s |-> "false", n |-> 0]

\* gjson's Bool(): true, a string ParseBool reads as true, a non-zero number
Bool(r) ==
  \/ r.t = "true"
  \/ r.t = "string" /\ r.s \in {"1", "t", "true"}
  \/ r.t = "number" /\ r.n # 0

\* what sjson.Set stores for a Go bool, an int64 (Int()) and a float64
\* (Float(); every number of the pools is whole or printed as it was read)
SetBool(r) == IF Bool(r) THEN JTrue ELSE JFalse
SetInt(r) == IF r.t = "number" THEN JNum(r.s, r.n) ELSE JNum("0", 0)
SetFloat(r) == IF r.t = "number" THEN JNum(r.s, r.n) ELSE JNum("0", 0)

CopiedFields ==
  {"model", "max_tokens", "temperature", "top_p", "frequency_penalty",
   "presence_penalty", "stop", "stream", "logprobs", "top_logprobs", "echo"}

DefaultPrompt == "Complete this:"

CompletionsRequests ==
  [prompt : {Absent, JNull, JStr(""), JStr("Say hi")},
   model : {Absent, JNull, JStr("m")},
   max_tokens : {Absent, JNum("16", 16)},
   temperature : {Absent, JNull, JNum("1", 1)},
   top_p : {Absent, JNum("1", 1)},
   frequency_penalty : {Absent, JNum("0", 0)},
   presence_penalty : {Absent, JNum("0", 0)},
   stop : {Absent, JStr("END")},
   stream : {Absent, JTrue, JStr("true")},
   logprobs : {Absent, JFalse},
   top_logprobs : {Absent, JNum("2", 2)},
   echo : {Absent, JNull}]

\* faulty variant: stream is written whether or not the request has it
convertCompletionsRequestToChatCompletions_AlwaysStream(root) ==
  LET prompt == IF String(root.prompt) = "" THEN DefaultPrompt ELSE String(root.prompt)
      copy(r, set) == IF Exists(r) THEN set ELSE Absent
  IN [model |-> IF Exists(root.model) THEN JStr(String(root.model)) ELSE JStr(""),
      messages |-> << [role |-> "user", content |-> prompt] >>,
      max_tokens |-> copy(root.max_tokens, SetInt(root.max_tokens)),
      temperature |-> copy(root.temperature, SetFloat(root.temperature)),
      top_p |-> copy(root.top_p, SetFloat(root.top_p)),
      frequency_penalty |-> copy(root.frequency_penalty, SetFloat(root.frequency_penalty)),
      presence_penalty |-> copy(root.presence_penalty, SetFloat(root.presence_penalty)),
      stop |-> copy(root.stop, root.stop),
      stream |-> SetBool(root.stream),
      logprobs |-> copy(root.logprobs, SetBool(root.logprobs)),
      top_logprobs |-> copy(root.top_logprobs, SetInt(root.top_logprobs)),
      echo |-> copy(root.echo, SetBool(root.echo))]

\* out starts as {"model":"","messages":[{"role":"user","content":""}]}
convertCompletionsRequestToChatCompletions(root) ==
  LET prompt == IF String(root.prompt) = "" THEN DefaultPrompt ELSE String(root.prompt)
      copy(r, set) == IF Exists(r) THEN set ELSE Absent
  IN [model |-> IF Exists(root.model) THEN JStr(String(root.model)) ELSE JStr(""),
      messages |-> << [role |-> "user", content |-> prompt] >>,
      max_tokens |-> copy(root.max_tokens, SetInt(root.max_tokens)),
      temperature |-> copy(root.temperature, SetFloat(root.temperature)),
      top_p |-> copy(root.top_p, SetFloat(root.top_p)),
      frequency_penalty |-> copy(root.frequency_penalty, SetFloat(root.frequency_penalty)),
      presence_penalty |-> copy(root.presence_penalty, SetFloat(root.presence_penalty)),
      stop |-> copy(root.stop, root.stop),
      stream |-> copy(root.stream, SetBool(root.stream)),
      logprobs |-> copy(root.logprobs, SetBool(root.logprobs)),
      top_logprobs |-> copy(root.top_logprobs, SetInt(root.top_logprobs)),
      echo |-> copy(root.echo, SetBool(root.echo))]

\* the "stream" field by its gjson type: absent, true, false, the string
\* "true", the number 1
StreamResult(sf) ==
  CASE sf = "absent" -> Absent
    [] sf = "true" -> JTrue
    [] sf = "false" -> JFalse
    [] sf = "string" -> JStr("true")
    [] sf = "number" -> JNum("1", 1)

\* the legacy Completions request of a run: a prompt, a model and the
\* "stream" field
CompletionsRequest(sf) ==
  [prompt |-> JStr("Say hi"), model |-> JStr("m"), max_tokens |-> Absent,
   temperature |-> Absent, top_p |-> Absent, frequency_penalty |-> Absent,
   presence_penalty |-> Absent, stop |-> Absent, stream |-> StreamResult(sf),
   logprobs |-> Absent, top_logprobs |-> Absent, echo |-> Absent]

(***************************************************************************)
(* What is written to the client: a sequence of writes.                    *)
(***************************************************************************)
NoChunk == [seq |-> 0]

\* fmt.Fprintf(c.Writer, "data: %s\n\n", payload)
DataFrame(payload) == [k |-> "data", c |-> payload, m |-> NilMsg]
\* fmt.Fprintf(c.Writer, "data: [DONE]\n\n")
DoneFrame == [k |-> "done", c |-> NoChunk, m |-> NilMsg]
\* c.Writer.Write([]byte("\n"))
Newline == [k |-> "nl", c |-> NoChunk, m |-> NilMsg]
\* c.Writer.Write(chunk)
RawBytes(b) == [k |-> "raw", c |-> b, m |-> NilMsg]
\* the body the error-writer produces for a backend error message
ErrorBody(msg) == [k |-> "error", c |-> NoChunk, m |-> msg]
\* c.JSON(status, handlers.ErrorResponse{Error: {Type: type}})
JSONError(type) == [k |-> type, c |-> NoChunk, m |-> NilMsg]

\* c.Writer.Write(resp) of a non-streaming handler
Body(resp) == [k |-> "body", c |-> resp, m |-> NilMsg]

\* h.WriteErrorResponse(c, errMsg): the error-writer puts one error body for
\* the message on the response
WriteErrorResponse(o, errMsg) == Append(o, ErrorBody(errMsg))

(***************************************************************************)
(* JSON values as encoding/json decodes them into interface{}: nil, bool,  *)
(* float64, string, []interface{} and map[string]interface{}.              *)
(***************************************************************************)
VNull == [t |-> "null", v |-> 0]
VBool(b) == [t |-> "bool", v |-> b]
VNum(n) == [t |-> "number", v |-> n]
VStr(x) == [t |-> "string", v |-> x]
VArr(q) == [t |-> "array", v |-> q]
VObj(f) == [t |-> "object", v |-> f]

\* the object with the single key k
Obj1(k, x) == VObj([i \in {k} |-> x])
\* the object with the two keys k1 # k2
Obj2(k1, x1, k2, x2) == VObj([i \in {k1, k2} |-> IF i = k1 THEN x1 ELSE x2])

\* the functions on K that take at k one of the values O[k]
Choices(K, O) ==
  {g \in [K -> UNION {O[k] : k \in K}] : \A k \in K : g[k] \in O[k]}

(***************************************************************************)
(* Schema sanitizer.                                                       *)
(***************************************************************************)
\* strings.ToLower on the keys of the model
ToLower(key) ==
  CASE key = "Type" -> "type"
    [] key = "CONST" -> "const"
    [] key = "Enum" -> "enum"
    [] key = "anyOf" -> "anyof"
    [] key = "additionalProperties" -> "additionalproperties"
    [] OTHER -> key

\* strings.TrimSpace on the strings of the model
TrimSpace(x) ==
  CASE x = " a " -> "a"
    [] x = "  " -> ""
    [] x = " string " -> "string"
    [] OTHER -> x

\* strings.ToUpper on the (trimmed) type names of the model
ToUpper(x) ==
  CASE x = "string" -> "STRING"
    [] x = "object" -> "OBJECT"
    [] x = "Integer" -> "INTEGER"
    [] x = "bool" -> "BOOL"
    [] x = "float" -> "FLOAT"
    [] x = "list" -> "LIST"
    [] x = "map" -> "MAP"
    [] x = "null" -> "NULL"
    [] x = "any" -> "ANY"
    [] x = "date" -> "DATE"
    [] OTHER -> x

geminiAllowedTypes == {"OBJECT", "ARRAY", "STRING", "NUMBER", "INTEGER", "BOOLEAN"}

\* faulty variant: a name the table does not know is kept in upper case
normalizeGeminiType_KeepUnknown(x) ==
  LET upper == ToUpper(TrimSpace(x)) IN
  IF upper \in geminiAllowedTypes THEN upper
  ELSE CASE upper \in {"OBJECT", "RECORD", "MAP"} -> "OBJECT"
         [] upper = "BOOL" -> "BOOLEAN"
         [] upper \in {"DOUBLE", "FLOAT"} -> "NUMBER"
         [] upper = "INT" -> "INTEGER"
         [] upper = "LIST" -> "ARRAY"
         [] OTHER -> upper

normalizeGeminiType(x) ==
  LET upper == ToUpper(TrimSpace(x)) IN
  IF upper \in geminiAllowedTypes THEN upper
  ELSE CASE upper \in {"OBJECT", "RECORD", "MAP"} -> "OBJECT"
         [] upper = "BOOL" -> "BOOLEAN"
         [] upper \in {"DOUBLE", "FLOAT"} -> "NUMBER"
         [] upper = "INT" -> "INTEGER"
         [] upper = "LIST" -> "ARRAY"
         [] OTHER -> ""

\* the Go slice sanitizeGeminiEnum returns (nil and empty are both << >>)
sanitizeGeminiEnum(val) ==
  IF val.t # "array" THEN << >>
  ELSE SelectSeq(val.v, LAMBDA item : item.t \in {"string", "number", "bool", "null"})

RECURSIVE RequiredOf(_)
RequiredOf(items) ==
  IF items = << >> THEN << >>
  ELSE LET item == Head(items) IN
       IF item.t = "string" /\ TrimSpace(item.v) # ""
       THEN << VStr(TrimSpace(item.v)) >> \o RequiredOf(Tail(items))
       ELSE RequiredOf(Tail(items))

\* the Go slice sanitizeGeminiRequired returns
sanitizeGeminiRequired(val) ==
  IF val.t # "array" THEN << >> ELSE RequiredOf(val.v)

\* the first candidate of a type array that normalizes, "" when none does
RECURSIVE FirstType(_)
FirstType(typed) ==
  IF typed = << >> THEN ""
  ELSE LET candidate == Head(typed) IN
       IF candidate.t = "string" /\ normalizeGeminiType(candidate.v) # ""
       THEN normalizeGeminiType(candidate.v)
       ELSE FirstType(Tail(typed))

RemovedKeys ==
  {"$defs", "definitions", "$ref", "anyof", "allof", "oneof", "not", "if",
   "then", "else", "dependentrequired", "dependentschemas",
   "patternproperties"}

\* sanitizeGeminiSchema(node): the set of values it can return.  A Go map is
\* visited in an unspecified order, so when several keys of an object assign
\* the same key of cleaned, the one visited last wins: any of them.
RECURSIVE sanitizeGeminiSchema(_), ObjectEntries(_, _)
sanitizeGeminiSchema(node) ==
  CASE node.t = "object" ->
         LET entries == UNION {ObjectEntries(key, node.v[key]) : key \in DOMAIN node.v}
             keys == {e.key : e \in entries}
             vals == [k \in keys |-> {e.val : e \in {x \in entries : x.key = k}}]
         IN {VObj(cleaned) : cleaned \in Choices(keys, vals)}
    [] node.t = "array" ->
         LET kept == SelectSeq(node.v, LAMBDA item : item.t # "null")
             opts == [i \in 1..Len(kept) |-> sanitizeGeminiSchema(kept[i])]
         IN {VArr(arr) : arr \in Choices(1..Len(kept), opts)}
    [] OTHER -> {node}

\* what the visit of one key can assign to cleaned: a set of (key, value)
ObjectEntries(key, val) ==
  LET lowerKey == ToLower(key) IN
  CASE lowerKey \in RemovedKeys -> {}
    [] lowerKey = "nullable" -> {}
    [] lowerKey = "const" ->
         IF val.t # "null" THEN {[key |-> "enum", val |-> VArr(<< val >>)]} ELSE {}
    [] lowerKey = "type" ->
         LET normalized == CASE val.t = "string" -> normalizeGeminiType(val.v)
                             [] val.t = "array" -> FirstType(val.v)
                             [] OTHER -> ""
         IN IF normalized # "" THEN {[key |-> key, val |-> VStr(normalized)]} ELSE {}
    [] lowerKey = "enum" ->
         LET enumVals == sanitizeGeminiEnum(val) IN
         IF Len(enumVals) > 0 THEN {[key |-> key, val |-> VArr(enumVals)]} ELSE {}
    [] lowerKey = "required" ->
         LET required == sanitizeGeminiRequired(val) IN
         IF Len(required) > 0 THEN {[key |-> key, val |-> VArr(required)]} ELSE {}
    [] lowerKey = "properties" ->
         IF val.t = "object"
         THEN LET propKeys == {pk \in DOMAIN val.v : val.v[pk].t # "null"}
                  opts == [pk \in propKeys |-> sanitizeGeminiSchema(val.v[pk])]
              IN {[key |-> key, val |-> VObj(propClean)] :
                     propClean \in Choices(propKeys, opts)}
         ELSE {}
    [] lowerKey = "items" ->
         IF val.t # "null"
         THEN {[key |-> key, val |-> x] : x \in sanitizeGeminiSchema(val)}
         ELSE {}
    [] lowerKey = "additionalproperties" ->
         IF val.t = "bool" /\ ~val.v THEN {[key |-> key, val |-> VBool(FALSE)]} ELSE {}
    [] OTHER ->
         IF val.t # "null"
         THEN {[key |-> key, val |-> x] : x \in sanitizeGeminiSchema(val)}
         ELSE {}

\* a schema string: blank (empty or whitespace only), or a JSON document that
\* is either in the form json.Marshal prints or carries extra whitespace
RawDoc(compact, doc) == [blank |-> FALSE, compact |-> compact, doc |-> doc]
RawBlank == [blank |-> TRUE, compact |-> FALSE, doc |-> VNull]

\* SanitizeSchemaForGemini(raw): the strings it can return
SanitizeSchemaForGemini(raw) ==
  IF raw.blank THEN {RawDoc(TRUE, VObj(<< >>))}
  ELSE {RawDoc(TRUE, sanitized) : sanitized \in sanitizeGeminiSchema(raw.doc)}

(***************************************************************************)
(* State of one request.                                                   *)
(***************************************************************************)
VARIABLES
  endpoint,      \* "chat", "completions" or "responses"
  streamField,   \* the request's "stream" field, by its gjson type
  bodyErr,       \* c.GetRawData() fails
  hasFlusher,    \* c.Writer implements http.Flusher
  pc,            \* position of the handler
  exitPath,      \* the return statement a stream relay left by
  ctxCreated,    \* GetContextWithCancel has been called
  backendCalls,  \* calls made to the execution gateway
  execRet,       \* what ExecuteWithAuthManager returned, when it was called
  cancelCalls,   \* errors the cancel function was called with, in order
  out,           \* writes made to the client, in order
  flushes,       \* number of flusher.Flush() calls
  httpStatus,    \* status set through c.JSON, 0 when none
  dataQ,         \* data channel: chunks sent and not yet received
  dataClosed,    \* data channel closed by the backend
  errQ,          \* error channel: messages sent and not yet received
  errClosed,     \* error channel closed by the backend
  ctxDone,       \* the request context is cancelled (client gone)
  ctxErr,        \* c.Request.Context().Err()
  sentData,      \* history: chunks the backend sent
  recv,          \* history: chunks the relay received
  errPut,        \* history: messages the backend put on the error channel
  errGot,        \* history: messages the relay received from the error channel
  errClosedSeen, \* history: receives from the closed error channel (saturating)
  raw,           \* sanitizer run: the schema string given
  sanitized,     \* sanitizer run: SanitizeSchemaForGemini(raw)
  resanitized,   \* sanitizer run: SanitizeSchemaForGemini(sanitized)
  sanStep,       \* sanitizer run: number of applications done, "idle" if none runs
  fnArg,         \* function run: the argument given, "idle" if none runs
  fnRet,         \* function run: what the function returned
  fnStep         \* function run: "idle", "drawn" (argument chosen) or "done"

reqVars == <<endpoint, streamField, bodyErr, hasFlusher>>
chanVars == <<dataQ, dataClosed, errQ, errClosed, sentData, errPut>>
cliVars == <<ctxDone, ctxErr>>
histVars == <<recv, errGot, errClosedSeen>>
respVars == <<out, flushes, httpStatus>>
sanVars == <<raw, sanitized, resanitized, sanStep>>
handlerVars == <<reqVars, pc, exitPath, ctxCreated, backendCalls, execRet,
                 cancelCalls, respVars, chanVars, cliVars, histVars>>
fnVars == <<fnArg, fnRet, fnStep>>
pureVars == <<sanVars, fnVars>>
vars == <<handlerVars, pureVars>>

\* no function run is under way
FnIdle == fnArg = "idle" /\ fnRet = "idle" /\ fnStep = "idle"

Endpoints == {"chat", "completions", "responses"}

\* gjson types of "stream": absent, true, false, the string "true", the number 1
StreamVals == {"absent", "true", "false", "string", "number"}

\* constant.OpenAI and constant.OpenaiResponse
HandlerType(e) == IF e = "responses" THEN "openai-response" ELSE "openai"

\* what ExecuteWithAuthManager returns: (resp, errMsg)
ExecResults == {[resp |-> r, errMsg |-> m] : r \in RespPool, m \in ErrMsgs \cup {NilMsg}}

Min(a, b) == IF a < b THEN a ELSE b

\* a request not yet handled, for the endpoint e
InitRequest ==
  /\ pc = "Entry"
  /\ exitPath = "none"
  /\ ctxCreated = FALSE
  /\ backendCalls = << >>
  /\ execRet = << >>
  /\ cancelCalls = << >>
  /\ out = << >>
  /\ flushes = 0
  /\ httpStatus = 0
  /\ dataQ = << >>
  /\ dataClosed = FALSE
  /\ errQ = << >>
  /\ errClosed = FALSE
  /\ ctxDone = FALSE
  /\ ctxErr = NilErr
  /\ sentData = << >>
  /\ recv = << >>
  /\ errPut = << >>
  /\ errGot = << >>
  /\ errClosedSeen = 0

Init ==
  /\ endpoint \in Endpoints
  /\ streamField \in StreamVals
  /\ bodyErr \in BOOLEAN
  /\ hasFlusher \in BOOLEAN
  /\ InitRequest
  /\ raw = RawBlank
  /\ sanitized = RawBlank
  /\ resanitized = RawBlank
  /\ sanStep = "idle"
  /\ FnIdle

(***************************************************************************)
(* Endpoint entry points: read the body, choose the path.                  *)
(***************************************************************************)
\* shared shape of ChatCompletions / Completions / Responses
Route(e) ==
  /\ pc = "Entry"
  /\ endpoint = e
  /\ IF bodyErr
     THEN /\ out' = Append(out, JSONError("invalid_request_error"))
          /\ httpStatus' = 400
          /\ pc' = "Returned"
     ELSE /\ pc' = IF streamField = "true" THEN "handleStreamingResponse"
                   ELSE "handleNonStreamingResponse"
          /\ UNCHANGED <<out, httpStatus>>
  /\ UNCHANGED <<pureVars, reqVars, exitPath, ctxCreated, backendCalls, execRet, cancelCalls,
                 flushes, chanVars, cliVars, histVars>>

ChatCompletions == Route("chat")

Completions == Route("completions")

Responses == Route("responses")

(***************************************************************************)
(* Non-streaming handlers.                                                 *)
(***************************************************************************)
\* OpenAIAPIHandler.handleNonStreamingResponse
ChatHandleNonStreamingResponse ==
  /\ pc = "handleNonStreamingResponse"
  /\ endpoint = "chat"
  /\ ctxCreated' = TRUE
  /\ backendCalls' = Append(backendCalls,
                            [op |-> "Execute", handlerType |-> HandlerType("chat")])
  /\ \E res \in ExecResults :
        /\ execRet' = Append(execRet, res)
        /\ IF ~res.errMsg.isNil
           THEN /\ out' = WriteErrorResponse(out, res.errMsg)
                /\ cancelCalls' = Append(cancelCalls, res.errMsg.Error)
           ELSE /\ out' = Append(out, Body(res.resp))
                /\ cancelCalls' = Append(cancelCalls, NilErr)
  /\ pc' = "Returned"
  /\ UNCHANGED <<pureVars, reqVars, exitPath, flushes, httpStatus, chanVars, cliVars,
                 histVars>>

\* OpenAIAPIHandler.handleCompletionsNonStreamingResponse
HandleCompletionsNonStreamingResponse ==
  /\ pc = "handleNonStreamingResponse"
  /\ endpoint = "completions"
  /\ ctxCreated' = TRUE
  /\ backendCalls' = Append(backendCalls,
                            [op |-> "Execute",
                             handlerType |-> HandlerType("completions"),
                             payload |-> convertCompletionsRequestToChatCompletions(
                                           CompletionsRequest(streamField))])
  /\ \E res \in ExecResults :
        /\ execRet' = Append(execRet, res)
        /\ IF ~res.errMsg.isNil
           THEN /\ out' = WriteErrorResponse(out, res.errMsg)
                /\ cancelCalls' = Append(cancelCalls, res.errMsg.Error)
           ELSE /\ out' = Append(out,
                         Body(convertChatCompletionsResponseToCompletions(res.resp)))
                /\ cancelCalls' = Append(cancelCalls, NilErr)
  /\ pc' = "Returned"
  /\ UNCHANGED <<pureVars, reqVars, exitPath, flushes, httpStatus, chanVars, cliVars,
                 histVars>>

\* OpenAIResponsesAPIHandler.handleNonStreamingResponse: the deferred
\* cliCancel() runs on both returns and passes no error
ResponsesHandleNonStreamingResponse ==
  /\ pc = "handleNonStreamingResponse"
  /\ endpoint = "responses"
  /\ ctxCreated' = TRUE
  /\ backendCalls' = Append(backendCalls,
                            [op |-> "Execute",
                             handlerType |-> HandlerType("responses")])
  /\ \E res \in ExecResults :
        /\ execRet' = Append(execRet, res)
        /\ IF ~res.errMsg.isNil
           THEN out' = WriteErrorResponse(out, res.errMsg)
           ELSE out' = Append(out, Body(res.resp))
  /\ cancelCalls' = Append(cancelCalls, NilErr)
  /\ pc' = "Returned"
  /\ UNCHANGED <<pureVars, reqVars, exitPath, flushes, httpStatus, chanVars, cliVars,
                 histVars>>

(***************************************************************************)
(* Streaming handlers: flusher check, then dispatch to the gateway.        *)
(***************************************************************************)
\* OpenAIAPIHandler.handleStreamingResponse
ChatHandleStreamingResponse ==
  /\ pc = "handleStreamingResponse"
  /\ endpoint = "chat"
  /\ IF ~hasFlusher
     THEN /\ out' = Append(out, JSONError("server_error"))
          /\ httpStatus' = 500
          /\ pc' = "Returned"
          /\ UNCHANGED <<ctxCreated, backendCalls>>
     ELSE /\ ctxCreated' = TRUE
          /\ backendCalls' = Append(backendCalls,
                               [op |-> "ExecuteStream",
                                handlerType |-> HandlerType("chat")])
          /\ pc' = "Running"
          /\ UNCHANGED <<out, httpStatus>>
  /\ UNCHANGED <<pureVars, reqVars, exitPath, execRet, cancelCalls, flushes, chanVars,
                 cliVars, histVars>>

\* faulty variant: the gateway is called before the flusher check
HandleCompletionsStreamingResponse_DispatchFirst ==
  /\ pc = "handleStreamingResponse"
  /\ endpoint = "completions"
  /\ IF ~hasFlusher
     THEN /\ out' = Append(out, JSONError("server_error"))
          /\ httpStatus' = 500
          /\ pc' = "Returned"
          /\ ctxCreated' = TRUE
          /\ backendCalls' = Append(backendCalls,
                               [op |-> "ExecuteStream",
                                handlerType |-> HandlerType("completions"),
                                payload |-> convertCompletionsRequestToChatCompletions(
                                              CompletionsRequest(streamField))])
     ELSE /\ ctxCreated' = TRUE
          /\ backendCalls' = Append(backendCalls,
                               [op |-> "ExecuteStream",
                                handlerType |-> HandlerType("completions"),
                                payload |-> convertCompletionsRequestToChatCompletions(
                                              CompletionsRequest(streamField))])
          /\ pc' = "Running"
          /\ UNCHANGED <<out, httpStatus>>
  /\ UNCHANGED <<pureVars, reqVars, exitPath, execRet, cancelCalls, flushes, chanVars,
                 cliVars, histVars>>

\* OpenAIAPIHandler.handleCompletionsStreamingResponse, up to its loop
HandleCompletionsStreamingResponse ==
  /\ pc = "handleStreamingResponse"
  /\ endpoint = "completions"
  /\ IF ~hasFlusher
     THEN /\ out' = Append(out, JSONError("server_error"))
          /\ httpStatus' = 500
          /\ pc' = "Returned"
          /\ UNCHANGED <<ctxCreated, backendCalls>>
     ELSE /\ ctxCreated' = TRUE
          /\ backendCalls' = Append(backendCalls,
                               [op |-> "ExecuteStream",
                                handlerType |-> HandlerType("completions"),
                                payload |-> convertCompletionsRequestToChatCompletions(
                                              CompletionsRequest(streamField))])
          /\ pc' = "Running"
          /\ UNCHANGED <<out, httpStatus>>
  /\ UNCHANGED <<pureVars, reqVars, exitPath, execRet, cancelCalls, flushes, chanVars,
                 cliVars, histVars>>

\* OpenAIResponsesAPIHandler.handleStreamingResponse
ResponsesHandleStreamingResponse ==
  /\ pc = "handleStreamingResponse"
  /\ endpoint = "responses"
  /\ IF ~hasFlusher
     THEN /\ out' = Append(out, JSONError("server_error"))
          /\ httpStatus' = 500
          /\ pc' = "Returned"
          /\ UNCHANGED <<ctxCreated, backendCalls>>
     ELSE /\ ctxCreated' = TRUE
          /\ backendCalls' = Append(backendCalls,
                               [op |-> "ExecuteStream",
                                handlerType |-> HandlerType("responses")])
          /\ pc' = "Running"
          /\ UNCHANGED <<out, httpStatus>>
  /\ UNCHANGED <<pureVars, reqVars, exitPath, execRet, cancelCalls, flushes, chanVars,
                 cliVars, histVars>>

(***************************************************************************)
(* Stream relays.  One action per case of the select; a case is ready when *)
(* its channel has a value or is closed, and the select takes any ready    *)
(* case.  A closed channel yields its buffered values before the closure.  *)
(***************************************************************************)

\* faulty variant: the disconnect branch cancels with a nil error
handleStreamResult_CtxDone_NilErr ==
  /\ pc = "Running"
  /\ endpoint = "chat"
  /\ ctxDone
  /\ cancelCalls' = Append(cancelCalls, NilErr)
  /\ pc' = "Closed"
  /\ exitPath' = "ctx"
  /\ UNCHANGED <<pureVars, reqVars, ctxCreated, backendCalls, execRet, respVars, chanVars,
                 cliVars, histVars>>

\* handleStreamResult: case <-c.Request.Context().Done()
handleStreamResult_CtxDone ==
  /\ pc = "Running"
  /\ endpoint = "chat"
  /\ ctxDone
  /\ cancelCalls' = Append(cancelCalls, ctxErr)
  /\ pc' = "Closed"
  /\ exitPath' = "ctx"
  /\ UNCHANGED <<pureVars, reqVars, ctxCreated, backendCalls, execRet, respVars, chanVars,
                 cliVars, histVars>>

\* faulty variant: the closure of the data channel does not end the loop
handleStreamResult_Data_NoReturn ==
  /\ pc = "Running"
  /\ endpoint = "chat"
  /\ IF dataQ # << >>
     THEN LET chunk == Head(dataQ) IN
          /\ dataQ' = Tail(dataQ)
          /\ recv' = Append(recv, chunk)
          /\ out' = Append(out, DataFrame(chunk))
          /\ flushes' = flushes + 1
          /\ UNCHANGED <<pc, exitPath, cancelCalls>>
     ELSE /\ dataClosed
          /\ UNCHANGED <<out, flushes, cancelCalls, pc, exitPath, dataQ, recv>>
  /\ UNCHANGED <<pureVars, reqVars, ctxCreated, backendCalls, execRet, httpStatus, dataClosed,
                 errQ, errClosed, sentData, errPut, cliVars, errGot,
                 errClosedSeen>>

\* handleStreamResult: case chunk, ok := <-data
handleStreamResult_Data ==
  /\ pc = "Running"
  /\ endpoint = "chat"
  /\ IF dataQ # << >>
     THEN LET chunk == Head(dataQ) IN
          /\ dataQ' = Tail(dataQ)
          /\ recv' = Append(recv, chunk)
          /\ out' = Append(out, DataFrame(chunk))
          /\ flushes' = flushes + 1
          /\ UNCHANGED <<pc, exitPath, cancelCalls>>
     ELSE /\ dataClosed
          /\ out' = Append(out, DoneFrame)
          /\ flushes' = flushes + 1
          /\ cancelCalls' = Append(cancelCalls, NilErr)
          /\ pc' = "Closed"
          /\ exitPath' = "data"
          /\ UNCHANGED <<dataQ, recv>>
  /\ UNCHANGED <<pureVars, reqVars, ctxCreated, backendCalls, execRet, httpStatus, dataClosed,
                 errQ, errClosed, sentData, errPut, cliVars, errGot,
                 errClosedSeen>>

\* faulty variant: the error branch does not return
handleStreamResult_Errs_NoReturn ==
  /\ pc = "Running"
  /\ endpoint = "chat"
  /\ IF errQ # << >>
     THEN LET errMsg == Head(errQ) IN
          /\ errQ' = Tail(errQ)
          /\ errGot' = Append(errGot, errMsg)
          /\ IF ~errMsg.isNil
             THEN /\ out' = WriteErrorResponse(out, errMsg)
                  /\ flushes' = flushes + 1
             ELSE UNCHANGED <<out, flushes>>
          /\ cancelCalls' = Append(cancelCalls,
                                   IF ~errMsg.isNil THEN errMsg.Error ELSE NilErr)
          /\ UNCHANGED <<pc, exitPath, errClosedSeen>>
     ELSE /\ errClosed
          /\ errClosedSeen' = Min(errClosedSeen + 1, MaxSpin)
          /\ UNCHANGED <<errQ, errGot, out, flushes, cancelCalls, pc, exitPath>>
  /\ UNCHANGED <<pureVars, reqVars, ctxCreated, backendCalls, execRet, httpStatus, dataQ,
                 dataClosed, errClosed, sentData, errPut, cliVars, recv>>

\* handleStreamResult: case errMsg, ok := <-errs
handleStreamResult_Errs ==
  /\ pc = "Running"
  /\ endpoint = "chat"
  /\ IF errQ # << >>
     THEN LET errMsg == Head(errQ) IN
          /\ errQ' = Tail(errQ)
          /\ errGot' = Append(errGot, errMsg)
          /\ IF ~errMsg.isNil
             THEN /\ out' = WriteErrorResponse(out, errMsg)
                  /\ flushes' = flushes + 1
             ELSE UNCHANGED <<out, flushes>>
          /\ cancelCalls' = Append(cancelCalls,
                                   IF ~errMsg.isNil THEN errMsg.Error ELSE NilErr)
          /\ pc' = "Closed"
          /\ exitPath' = "errs"
          /\ UNCHANGED errClosedSeen
     ELSE /\ errClosed
          /\ errClosedSeen' = Min(errClosedSeen + 1, MaxSpin)
          /\ UNCHANGED <<errQ, errGot, out, flushes, cancelCalls, pc, exitPath>>
  /\ UNCHANGED <<pureVars, reqVars, ctxCreated, backendCalls, execRet, httpStatus, dataQ,
                 dataClosed, errClosed, sentData, errPut, cliVars, recv>>

\* handleStreamResult: case <-time.After(500 * time.Millisecond)
handleStreamResult_Tick ==
  /\ pc = "Running"
  /\ endpoint = "chat"
  /\ UNCHANGED vars

handleStreamResult ==
  \/ handleStreamResult_CtxDone
  \/ handleStreamResult_Data
  \/ handleStreamResult_Errs
  \/ handleStreamResult_Tick

\* faulty variant: the disconnect branch returns without calling cancel
CompletionsStreamLoop_CtxDone_NoCancel ==
  /\ pc = "Running"
  /\ endpoint = "completions"
  /\ ctxDone
  /\ UNCHANGED cancelCalls
  /\ pc' = "Closed"
  /\ exitPath' = "ctx"
  /\ UNCHANGED <<pureVars, reqVars, ctxCreated, backendCalls, execRet, respVars, chanVars,
                 cliVars, histVars>>

\* loop of handleCompletionsStreamingResponse: case <-c.Request.Context().Done()
CompletionsStreamLoop_CtxDone ==
  /\ pc = "Running"
  /\ endpoint = "completions"
  /\ ctxDone
  /\ cancelCalls' = Append(cancelCalls, ctxErr)
  /\ pc' = "Closed"
  /\ exitPath' = "ctx"
  /\ UNCHANGED <<pureVars, reqVars, ctxCreated, backendCalls, execRet, respVars, chanVars,
                 cliVars, histVars>>

\* faulty variant: a forwarded frame is written twice
CompletionsStreamLoop_Data_Twice ==
  /\ pc = "Running"
  /\ endpoint = "completions"
  /\ IF dataQ # << >>
     THEN LET chunk == Head(dataQ) IN
          /\ dataQ' = Tail(dataQ)
          /\ recv' = Append(recv, chunk)
          /\ LET converted == convertChatCompletionsStreamChunkToCompletions(chunk) IN
               IF converted # NilBytes
               THEN /\ out' = out \o << DataFrame(converted), DataFrame(converted) >>
                    /\ flushes' = flushes + 1
               ELSE UNCHANGED <<out, flushes>>
          /\ UNCHANGED <<pc, exitPath, cancelCalls>>
     ELSE /\ dataClosed
          /\ out' = Append(out, DoneFrame)
          /\ flushes' = flushes + 1
          /\ cancelCalls' = Append(cancelCalls, NilErr)
          /\ pc' = "Closed"
          /\ exitPath' = "data"
          /\ UNCHANGED <<dataQ, recv>>
  /\ UNCHANGED <<pureVars, reqVars, ctxCreated, backendCalls, execRet, httpStatus, dataClosed,
                 errQ, errClosed, sentData, errPut, cliVars, errGot,
                 errClosedSeen>>

\* loop of handleCompletionsStreamingResponse: case chunk, ok := <-data
CompletionsStreamLoop_Data ==
  /\ pc = "Running"
  /\ endpoint = "completions"
  /\ IF dataQ # << >>
     THEN LET chunk == Head(dataQ) IN
          /\ dataQ' = Tail(dataQ)
          /\ recv' = Append(recv, chunk)
          /\ LET converted == convertChatCompletionsStreamChunkToCompletions(chunk) IN
               IF converted # NilBytes
               THEN /\ out' = Append(out, DataFrame(converted))
                    /\ flushes' = flushes + 1
               ELSE UNCHANGED <<out, flushes>>
          /\ UNCHANGED <<pc, exitPath, cancelCalls>>
     ELSE /\ dataClosed
          /\ out' = Append(out, DoneFrame)
          /\ flushes' = flushes + 1
          /\ cancelCalls' = Append(cancelCalls, NilErr)
          /\ pc' = "Closed"
          /\ exitPath' = "data"
          /\ UNCHANGED <<dataQ, recv>>
  /\ UNCHANGED <<pureVars, reqVars, ctxCreated, backendCalls, execRet, httpStatus, dataClosed,
                 errQ, errClosed, sentData, errPut, cliVars, errGot,
                 errClosedSeen>>

\* faulty variant: the error body is written and not flushed
CompletionsStreamLoop_Errs_NoFlush ==
  /\ pc = "Running"
  /\ endpoint = "completions"
  /\ IF errQ # << >>
     THEN LET errMsg == Head(errQ) IN
          /\ errQ' = Tail(errQ)
          /\ errGot' = Append(errGot, errMsg)
          /\ IF ~errMsg.isNil
             THEN /\ out' = WriteErrorResponse(out, errMsg)
                  /\ flushes' = flushes
             ELSE UNCHANGED <<out, flushes>>
          /\ cancelCalls' = Append(cancelCalls,
                                   IF ~errMsg.isNil THEN errMsg.Error ELSE NilErr)
          /\ pc' = "Closed"
          /\ exitPath' = "errs"
          /\ UNCHANGED errClosedSeen
     ELSE /\ errClosed
          /\ errClosedSeen' = Min(errClosedSeen + 1, MaxSpin)
          /\ UNCHANGED <<errQ, errGot, out, flushes, cancelCalls, pc, exitPath>>
  /\ UNCHANGED <<pureVars, reqVars, ctxCreated, backendCalls, execRet, httpStatus, dataQ,
                 dataClosed, errClosed, sentData, errPut, cliVars, recv>>

\* loop of handleCompletionsStreamingResponse: case errMsg, ok := <-errs
CompletionsStreamLoop_Errs ==
  /\ pc = "Running"
  /\ endpoint = "completions"
  /\ IF errQ # << >>
     THEN LET errMsg == Head(errQ) IN
          /\ errQ' = Tail(errQ)
          /\ errGot' = Append(errGot, errMsg)
          /\ IF ~errMsg.isNil
             THEN /\ out' = WriteErrorResponse(out, errMsg)
                  /\ flushes' = flushes + 1
             ELSE UNCHANGED <<out, flushes>>
          /\ cancelCalls' = Append(cancelCalls,
                                   IF ~errMsg.isNil THEN errMsg.Error ELSE NilErr)
          /\ pc' = "Closed"
          /\ exitPath' = "errs"
          /\ UNCHANGED errClosedSeen
     ELSE /\ errClosed
          /\ errClosedSeen' = Min(errClosedSeen + 1, MaxSpin)
          /\ UNCHANGED <<errQ, errGot, out, flushes, cancelCalls, pc, exitPath>>
  /\ UNCHANGED <<pureVars, reqVars, ctxCreated, backendCalls, execRet, httpStatus, dataQ,
                 dataClosed, errClosed, sentData, errPut, cliVars, recv>>

\* loop of handleCompletionsStreamingResponse: case <-time.After(500 * time.Millisecond)
CompletionsStreamLoop_Tick ==
  /\ pc = "Running"
  /\ endpoint = "completions"
  /\ UNCHANGED vars

CompletionsStreamLoop ==
  \/ CompletionsStreamLoop_CtxDone
  \/ CompletionsStreamLoop_Data
  \/ CompletionsStreamLoop_Errs
  \/ CompletionsStreamLoop_Tick

\* faulty variant: the line that ends the stream is written on disconnect too
forwardResponsesStream_CtxDone_Marker ==
  /\ pc = "Running"
  /\ endpoint = "responses"
  /\ ctxDone
  /\ out' = Append(out, Newline)
  /\ flushes' = flushes + 1
  /\ cancelCalls' = Append(cancelCalls, ctxErr)
  /\ pc' = "Closed"
  /\ exitPath' = "ctx"
  /\ UNCHANGED <<pureVars, reqVars, ctxCreated, backendCalls, execRet, httpStatus, chanVars,
                 cliVars, histVars>>

\* forwardResponsesStream: case <-c.Request.Context().Done()
forwardResponsesStream_CtxDone ==
  /\ pc = "Running"
  /\ endpoint = "responses"
  /\ ctxDone
  /\ cancelCalls' = Append(cancelCalls, ctxErr)
  /\ pc' = "Closed"
  /\ exitPath' = "ctx"
  /\ UNCHANGED <<pureVars, reqVars, ctxCreated, backendCalls, execRet, respVars, chanVars,
                 cliVars, histVars>>

\* faulty variant: the closure branch forgets the trailing newline
forwardResponsesStream_Data_NoMarker ==
  /\ pc = "Running"
  /\ endpoint = "responses"
  /\ IF dataQ # << >>
     THEN LET chunk == Head(dataQ) IN
          /\ dataQ' = Tail(dataQ)
          /\ recv' = Append(recv, chunk)
          /\ out' = (IF chunk.event THEN Append(out, Newline) ELSE out)
                        \o << RawBytes(chunk), Newline >>
          /\ flushes' = flushes + 1
          /\ UNCHANGED <<pc, exitPath, cancelCalls>>
     ELSE /\ dataClosed
          /\ UNCHANGED <<out, flushes>>
          /\ cancelCalls' = Append(cancelCalls, NilErr)
          /\ pc' = "Closed"
          /\ exitPath' = "data"
          /\ UNCHANGED <<dataQ, recv>>
  /\ UNCHANGED <<pureVars, reqVars, ctxCreated, backendCalls, execRet, httpStatus, dataClosed,
                 errQ, errClosed, sentData, errPut, cliVars, errGot,
                 errClosedSeen>>

\* forwardResponsesStream: case chunk, ok := <-data
forwardResponsesStream_Data ==
  /\ pc = "Running"
  /\ endpoint = "responses"
  /\ IF dataQ # << >>
     THEN LET chunk == Head(dataQ) IN
          /\ dataQ' = Tail(dataQ)
          /\ recv' = Append(recv, chunk)
          /\ out' = (IF chunk.event THEN Append(out, Newline) ELSE out)
                        \o << RawBytes(chunk), Newline >>
          /\ flushes' = flushes + 1
          /\ UNCHANGED <<pc, exitPath, cancelCalls>>
     ELSE /\ dataClosed
          /\ out' = Append(out, Newline)
          /\ flushes' = flushes + 1
          /\ cancelCalls' = Append(cancelCalls, NilErr)
          /\ pc' = "Closed"
          /\ exitPath' = "data"
          /\ UNCHANGED <<dataQ, recv>>
  /\ UNCHANGED <<pureVars, reqVars, ctxCreated, backendCalls, execRet, httpStatus, dataClosed,
                 errQ, errClosed, sentData, errPut, cliVars, errGot,
                 errClosedSeen>>

\* faulty variant: the closed-channel branch falls through to cancel and return
forwardResponsesStream_Errs_NoContinue ==
  /\ pc = "Running"
  /\ endpoint = "responses"
  /\ IF errQ # << >>
     THEN LET errMsg == Head(errQ) IN
          /\ errQ' = Tail(errQ)
          /\ errGot' = Append(errGot, errMsg)
          /\ IF ~errMsg.isNil
             THEN /\ out' = WriteErrorResponse(out, errMsg)
                  /\ flushes' = flushes + 1
             ELSE UNCHANGED <<out, flushes>>
          /\ cancelCalls' = Append(cancelCalls,
                                   IF ~errMsg.isNil THEN errMsg.Error ELSE NilErr)
          /\ pc' = "Closed"
          /\ exitPath' = "errs"
          /\ UNCHANGED errClosedSeen
     ELSE /\ errClosed
          /\ errClosedSeen' = Min(errClosedSeen + 1, MaxSpin)
          /\ cancelCalls' = Append(cancelCalls, NilErr)
          /\ pc' = "Closed"
          /\ exitPath' = "errs"
          /\ UNCHANGED <<errQ, errGot, out, flushes>>
  /\ UNCHANGED <<pureVars, reqVars, ctxCreated, backendCalls, execRet, httpStatus, dataQ,
                 dataClosed, errClosed, sentData, errPut, cliVars, recv>>

\* forwardResponsesStream: case errMsg, ok := <-errs
forwardResponsesStream_Errs ==
  /\ pc = "Running"
  /\ endpoint = "responses"
  /\ IF errQ # << >>
     THEN LET errMsg == Head(errQ) IN
          /\ errQ' = Tail(errQ)
          /\ errGot' = Append(errGot, errMsg)
          /\ IF ~errMsg.isNil
             THEN /\ out' = WriteErrorResponse(out, errMsg)
                  /\ flushes' = flushes + 1
             ELSE UNCHANGED <<out, flushes>>
          /\ cancelCalls' = Append(cancelCalls,
                                   IF ~errMsg.isNil THEN errMsg.Error ELSE NilErr)
          /\ pc' = "Closed"
          /\ exitPath' = "errs"
          /\ UNCHANGED errClosedSeen
     ELSE /\ errClosed
          /\ errClosedSeen' = Min(errClosedSeen + 1, MaxSpin)
          /\ UNCHANGED <<errQ, errGot, out, flushes, cancelCalls, pc, exitPath>>
  /\ UNCHANGED <<pureVars, reqVars, ctxCreated, backendCalls, execRet, httpStatus, dataQ,
                 dataClosed, errClosed, sentData, errPut, cliVars, recv>>

\* forwardResponsesStream: case <-time.After(500 * time.Millisecond)
forwardResponsesStream_Tick ==
  /\ pc = "Running"
  /\ endpoint = "responses"
  /\ UNCHANGED vars

forwardResponsesStream ==
  \/ forwardResponsesStream_CtxDone
  \/ forwardResponsesStream_Data
  \/ forwardResponsesStream_Errs
  \/ forwardResponsesStream_Tick

(***************************************************************************)
(* Environment: the execution gateway producing on the two channels it     *)
(* returned, and the client going away.  The channels exist from the       *)
(* ExecuteStream call on and are abandoned when the relay returns.         *)
(***************************************************************************)
BackendSend ==
  /\ pc = "Running"
  /\ ~dataClosed
  /\ Len(dataQ) < DataCap
  /\ Len(sentData) < MaxChunks
  /\ \E p \in Payloads :
        LET chunk == MkChunk(Len(sentData) + 1, p) IN
        /\ dataQ' = Append(dataQ, chunk)
        /\ sentData' = Append(sentData, chunk)
  /\ UNCHANGED <<pureVars, reqVars, pc, exitPath, ctxCreated, backendCalls, execRet, cancelCalls,
                 respVars, dataClosed, errQ, errClosed, errPut, cliVars,
                 histVars>>

BackendCloseData ==
  /\ pc = "Running"
  /\ ~dataClosed
  /\ dataClosed' = TRUE
  /\ UNCHANGED <<pureVars, reqVars, pc, exitPath, ctxCreated, backendCalls, execRet, cancelCalls,
                 respVars, dataQ, errQ, errClosed, sentData, errPut, cliVars,
                 histVars>>

BackendSendErr ==
  /\ pc = "Running"
  /\ ~errClosed
  /\ Len(errQ) < ErrCap
  /\ \E msg \in ErrMsgs \cup {NilMsg} :
        /\ errQ' = Append(errQ, msg)
        /\ errPut' = Append(errPut, msg)
  /\ UNCHANGED <<pureVars, reqVars, pc, exitPath, ctxCreated, backendCalls, execRet, cancelCalls,
                 respVars, dataQ, dataClosed, errClosed, sentData, cliVars,
                 histVars>>

BackendCloseErr ==
  /\ pc = "Running"
  /\ ~errClosed
  /\ errClosed' = TRUE
  /\ UNCHANGED <<pureVars, reqVars, pc, exitPath, ctxCreated, backendCalls, execRet, cancelCalls,
                 respVars, dataQ, dataClosed, errQ, sentData, errPut, cliVars,
                 histVars>>

ClientDisconnect ==
  /\ pc = "Running"
  /\ ~ctxDone
  /\ \E e \in CtxErrs :
        /\ ctxDone' = TRUE
        /\ ctxErr' = e
  /\ UNCHANGED <<pureVars, reqVars, pc, exitPath, ctxCreated, backendCalls, execRet, cancelCalls,
                 respVars, chanVars, histVars>>

Next ==
  \/ ChatCompletions
  \/ Completions
  \/ Responses
  \/ ChatHandleNonStreamingResponse
  \/ HandleCompletionsNonStreamingResponse
  \/ ResponsesHandleNonStreamingResponse
  \/ ChatHandleStreamingResponse
  \/ HandleCompletionsStreamingResponse
  \/ ResponsesHandleStreamingResponse
  \/ handleStreamResult
  \/ CompletionsStreamLoop
  \/ forwardResponsesStream
  \/ BackendSend
  \/ BackendCloseData
  \/ BackendSendErr
  \/ BackendCloseErr
  \/ ClientDisconnect

Spec == Init /\ [][Next]_vars

(***************************************************************************)
(* Properties of the stream relays and handlers.                           *)
(***************************************************************************)
\* what a relay of endpoint e is to write for one received chunk
ExpectedFrames(e, chunk) ==
  CASE e = "chat" -> << DataFrame(chunk) >>
    [] e = "completions" ->
         IF ChunkHasContent(chunk)
         THEN << DataFrame(convertChatCompletionsStreamChunkToCompletions(chunk)) >>
         ELSE << >>
    [] e = "responses" ->
         IF chunk.event THEN << Newline, RawBytes(chunk), Newline >>
         ELSE << RawBytes(chunk), Newline >>

RECURSIVE ExpectedStream(_, _)
ExpectedStream(e, chunks) ==
  IF chunks = << >> THEN << >>
  ELSE ExpectedFrames(e, Head(chunks)) \o ExpectedStream(e, Tail(chunks))

\* the termination marker of the dialect
Marker(e) == IF e = "responses" THEN Newline ELSE DoneFrame

\* the chunks of a sequence that the dialect forwards
Forwarded(e, chunks) ==
  SelectSeq(chunks, LAMBDA ch : e # "completions" \/ ChunkHasContent(ch))

IsDataWrite(w) == w.k \in {"data", "raw"}

\* C1 -- Relay termination: when the data channel yielded its chunks and then
\* closed, the error channel never yielded and the client never disconnected,
\* the relay has written exactly the frames of those chunks (legacy
\* Completions: of the chunks the adapter did not skip), then the termination
\* marker of the dialect, and has called cancel exactly once, with a nil error.
C1_RelayTermination ==
  (pc = "Closed" /\ errPut = << >> /\ ~ctxDone)
    => /\ exitPath = "data"
       /\ dataClosed /\ dataQ = << >> /\ recv = sentData
       /\ out = ExpectedStream(endpoint, sentData) \o << Marker(endpoint) >>
       /\ cancelCalls = << NilErr >>

C1_Witness ==
  /\ pc = "Closed" /\ errPut = << >> /\ ~ctxDone
  /\ endpoint = "completions"
  /\ Len(sentData) = 2
  /\ Len(out) = 2

\* C2 -- Relay error precedence: when the relay has received a non-nil error
\* message, it has written the error body exactly once, as its last write,
\* called cancel exactly once with that message's error, and no chunk of the
\* data channel is received or written afterwards, although chunks may be
\* waiting on the data channel.
C2_ErrorPrecedence ==
  (errGot # << >> /\ ~errGot[1].isNil)
    => /\ pc = "Closed" /\ exitPath = "errs"
       /\ Len(errGot) = 1
       /\ out = ExpectedStream(endpoint, recv) \o << ErrorBody(errGot[1]) >>
       /\ cancelCalls = << errGot[1].Error >>

C2_Witness ==
  /\ errGot # << >> /\ ~errGot[1].isNil
  /\ ~dataClosed
  /\ dataQ # << >>
  /\ recv # << >>
  /\ errGot[1].Error # NilErr

\* C3 -- Cancel exactly once: a running relay has not called cancel, a relay
\* that has returned has called it exactly once, whatever the interleaving of
\* disconnect, chunks, closures, error messages and ticks.
C3_CancelExactlyOnce ==
  /\ pc = "Running" => cancelCalls = << >>
  /\ pc = "Closed" => Len(cancelCalls) = 1
  /\ pc = "Closed" <=> exitPath # "none"

C3_Witness ==
  /\ pc = "Closed"
  /\ exitPath = "errs"
  /\ ctxDone
  /\ dataClosed
  /\ errClosedSeen = 0
  /\ Len(cancelCalls) = 1

\* C4 -- Errors surfaced exactly once (as claimed): in a relay run the client
\* stayed connected to, every non-nil error message the backend has put on
\* the error channel has exactly one error body in what the client received.
C4_ErrorsSurfacedOnce ==
  (pc = "Closed" /\ ~ctxDone)
    => \A i \in 1..Len(errPut) :
          ~errPut[i].isNil
            => Cardinality({j \in 1..Len(out) : out[j] = ErrorBody(errPut[i])}) = 1

\* C5 (as claimed) -- a nil value received from the error channel, by closure
\* or as a nil message on the open channel, leaves the relay Running with no
\* cancel call.
C5_NilIgnored ==
  (errGot # << >> /\ errGot[Len(errGot)].isNil)
    => pc = "Running" /\ cancelCalls = << >>

\* C5 (amended) -- a receive from the closed error channel is ignored: the
\* relay leaves through its error case only on a message, a run that saw the
\* closure and no message still relays every chunk and the termination
\* marker; a nil message on the open channel ends the relay, which writes
\* nothing for it and calls cancel once with a nil error.
C5_ClosedErrChannelIgnored ==
  /\ exitPath = "errs" => Len(errGot) = 1
  /\ errClosedSeen > 0 => errGot = << >> /\ errClosed
  /\ (errClosedSeen > 0 /\ pc = "Running") => cancelCalls = << >>
  /\ (errClosedSeen > 0 /\ pc = "Closed" /\ ~ctxDone)
       => /\ out = ExpectedStream(endpoint, sentData) \o << Marker(endpoint) >>
          /\ cancelCalls = << NilErr >>
  /\ (errGot # << >> /\ errGot[1].isNil)
       => /\ pc = "Closed" /\ exitPath = "errs"
          /\ out = ExpectedStream(endpoint, recv)
          /\ cancelCalls = << NilErr >>

C5_Witness ==
  /\ errClosedSeen > 0
  /\ pc = "Closed"
  /\ exitPath = "data"
  /\ ~ctxDone
  /\ Len(sentData) = 2

\* C6 -- Ordering: the data frames written to the client are, chunk for
\* chunk, a prefix of the chunks received from the data channel (legacy
\* Completions: of those the adapter did not skip), in the same order, none
\* written twice.
C6_Ordering ==
  LET written == SelectSeq(out, IsDataWrite)
      expected == Forwarded(endpoint, recv)
  IN pc \in {"Running", "Closed"}
       => /\ Len(written) <= Len(expected)
          /\ \A i \in 1..Len(written) : written[i].c.seq = expected[i].seq
          /\ \A i \in 1..Len(recv) : recv[i] = sentData[i]

C6_Witness ==
  /\ endpoint = "completions"
  /\ Len(recv) = 3
  /\ Len(SelectSeq(out, IsDataWrite)) = 2
  /\ ~ChunkHasContent(recv[2])

\* C7 -- Non-streaming backend error: when the gateway returned an error, the
\* handler has written the error body and nothing else, and has called cancel
\* exactly once, with the error of the message.
C7_NonStreamingError ==
  (pc = "Returned" /\ execRet # << >> /\ ~execRet[1].errMsg.isNil)
    => /\ out = << ErrorBody(execRet[1].errMsg) >>
       /\ cancelCalls = << execRet[1].errMsg.Error >>

\* C8 -- Client disconnect: a relay that left through the context-cancelled
\* case called cancel with the error of the client context, and wrote nothing
\* on that exit: no termination marker, no error body.
C8_ClientDisconnect ==
  exitPath = "ctx"
    => /\ ctxDone
       /\ ctxErr \in CtxErrs
       /\ cancelCalls = << ctxErr >>
       /\ out = ExpectedStream(endpoint, recv)
       /\ flushes = Len(Forwarded(endpoint, recv))

C8_Witness ==
  /\ exitPath = "ctx"
  /\ dataClosed
  /\ dataQ = << >>
  /\ errQ # << >>
  /\ recv # << >>

\* C9 -- Transport capability error: a streaming request on a writer without
\* flush capability is answered with HTTP 500 server_error and nothing else;
\* no backend context is created and the gateway is never called.
C9_NoFlusher ==
  (~bodyErr /\ streamField = "true" /\ ~hasFlusher)
    => /\ pc \in {"Entry", "handleStreamingResponse", "Returned"}
       /\ backendCalls = << >>
       /\ ~ctxCreated
       /\ cancelCalls = << >>
       /\ pc = "Returned"
            => httpStatus = 500 /\ out = << JSONError("server_error") >>
       /\ pc # "Returned" => out = << >>

C9_Witness ==
  /\ ~bodyErr /\ streamField = "true" /\ ~hasFlusher
  /\ pc = "Returned"
  /\ httpStatus = 500

(***************************************************************************)
(* The sanitizer applied twice to the schemas of a bounded pool.           *)
(***************************************************************************)
Scalars == {VNull, VBool(TRUE), VNum(1), VStr("a")}

NonScalars ==
  {Obj1("a", VNum(1)), Obj1("$ref", VStr("x")), Obj1("type", VStr("date")),
   VArr(<< VNum(1) >>), VArr(<< >>)}

EnumInputs ==
  {VArr(<< VStr("a"), VNum(1), VBool(TRUE), VNull, Obj1("x", VNum(1)),
           VArr(<< VNum(1), VNum(2) >>) >>),
   VArr(<< Obj1("x", VNum(1)) >>),
   VArr(<< VNum(2) >>),
   VArr(<< >>),
   VStr("a")}

TypeNames ==
  {"string", "STRING", " string ", "object", "Integer", "bool", "float",
   "list", "map", "null", "any", "", "date", "NUMBER"}

TypeInputs ==
  {VStr(x) : x \in TypeNames}
    \cup {VArr(<< VStr("null"), VStr("string") >>),
          VArr(<< VNum(1), VStr("date"), VStr("bool"), VStr("list") >>),
          VArr(<< VStr("any") >>),
          VNum(1)}

RequiredInputs ==
  {VArr(<< VStr("a"), VStr(""), VStr("  "), VStr("b") >>),
   VArr(<< VStr(" a "), VStr("a") >>),
   VArr(<< VNum(1), VStr("  ") >>),
   VStr("a")}

FlatSchemas ==
  {Obj1(k, c) : k \in {"const", "CONST"}, c \in Scalars \cup NonScalars}
    \cup {Obj1(k, e) : k \in {"enum", "Enum"}, e \in EnumInputs}
    \cup {Obj1(k, x) : k \in {"type", "Type"}, x \in TypeInputs}
    \cup {Obj1("required", r) : r \in RequiredInputs}
    \cup {Obj2("const", c, "enum", e) :
             c \in {VNum(1), Obj1("a", VNum(1))},
             e \in {VArr(<< VNum(2) >>), VArr(<< Obj1("x", VNum(1)) >>)}}
    \cup {Obj2("const", VNum(1), "CONST", VStr("a")),
          Obj2("type", VStr("string"), "Type", VStr("bool")),
          Obj2("type", VStr("object"), "anyOf", VArr(<< Obj1("type", VStr("string")) >>)),
          Obj2("type", VStr("string"), "nullable", VBool(TRUE))}
    \cup {Obj1("additionalProperties", x) :
             x \in {VBool(FALSE), VBool(TRUE), Obj1("type", VStr("string"))}}
    \cup {Obj1("description", VStr("a")), Obj1("description", VNull),
          Obj1("default", Obj1("const", Obj1("a", VNum(1)))),
          Obj1("properties", VStr("a")), Obj1("items", VNull),
          Obj1("properties", Obj1("type", Obj1("type", VStr("bool")))),
          Obj2("required", VArr(<< VStr("b"), VStr("a"), VStr("b") >>),
               "type", VStr("object")),
          VObj(<< >>), VStr("a"), VNull}

\* the schemas nested at most d deep in properties, items and arrays
RECURSIVE SchemasUpTo(_)
SchemasUpTo(d) ==
  IF d = 0 THEN FlatSchemas
  ELSE LET inner == SchemasUpTo(d - 1) IN
       inner
         \cup {Obj1("properties", Obj1("p", x)) : x \in inner}
         \cup {Obj1("items", x) : x \in inner}
         \cup {VArr(<< x, VNull >>) : x \in inner}

SchemaInputs ==
  {RawBlank} \cup {RawDoc(c, d) : c \in BOOLEAN, d \in SchemasUpTo(MaxNest)}

InitSan ==
  /\ endpoint = "chat"
  /\ streamField = "absent"
  /\ bodyErr = FALSE
  /\ hasFlusher = TRUE
  /\ InitRequest
  /\ raw \in SchemaInputs
  /\ sanitized = RawBlank
  /\ resanitized = RawBlank
  /\ sanStep = 0
  /\ FnIdle

\* out := SanitizeSchemaForGemini(raw)
Sanitize ==
  /\ sanStep = 0
  /\ sanitized' \in SanitizeSchemaForGemini(raw)
  /\ sanStep' = 1
  /\ UNCHANGED <<handlerVars, fnVars, raw, resanitized>>

\* out2 := SanitizeSchemaForGemini(out)
Resanitize ==
  /\ sanStep = 1
  /\ resanitized' \in SanitizeSchemaForGemini(sanitized)
  /\ sanStep' = 2
  /\ UNCHANGED <<handlerVars, fnVars, raw, sanitized>>

NextSan == Sanitize \/ Resanitize

SpecSan == InitSan /\ [][NextSan]_vars

\* C10 -- Sanitizer idempotence: sanitizing an already sanitized schema
\* yields the same schema, Sanitize(Sanitize(S)) = Sanitize(S).
C10_Idempotent == sanStep = 2 => resanitized = sanitized

(***************************************************************************)
(* Properties of the sanitizer's output.                                   *)
(***************************************************************************)
\* the object nodes of a document that stand where a schema stands: the
\* document itself, the values of properties, and what any other keyword or
\* array holds; the map under properties and the values listed by enum are
\* not schemas
RECURSIVE SchemaNodes(_)
SchemaNodes(x) ==
  CASE x.t = "object" ->
         {x} \cup UNION {
            IF ToLower(k) = "properties" /\ x.v[k].t = "object"
            THEN UNION {SchemaNodes(x.v[k].v[pk]) : pk \in DOMAIN x.v[k].v}
            ELSE IF ToLower(k) = "enum" THEN {}
            ELSE SchemaNodes(x.v[k]) : k \in DOMAIN x.v}
    [] x.t = "array" -> UNION {SchemaNodes(x.v[i]) : i \in 1..Len(x.v)}
    [] OTHER -> {}

\* the values a node holds under a keyword, whatever the case of the key
Keyword(node, word) == {node.v[k] : k \in {j \in DOMAIN node.v : ToLower(j) = word}}

IsScalar(x) == x.t \in {"string", "number", "bool", "null"}

\* C11 -- Scalar enums: after sanitization every enum of the output is a
\* non-empty list of scalars (string, number, bool, null), also an enum the
\* sanitizer made from a const.
C11_EnumScalar ==
  sanStep >= 1
    => \A node \in SchemaNodes(sanitized.doc) :
          \A e \in Keyword(node, "enum") :
             /\ e.t = "array"
             /\ Len(e.v) > 0
             /\ \A i \in 1..Len(e.v) : IsScalar(e.v[i])

\* C12 -- Required lists: after sanitization every required of the output is
\* a non-empty list of strings, each trimmed and non-empty, none occurring
\* twice.
C12_RequiredDeduplicated ==
  sanStep >= 1
    => \A node \in SchemaNodes(sanitized.doc) :
          \A r \in Keyword(node, "required") :
             /\ r.t = "array"
             /\ Len(r.v) > 0
             /\ \A i \in 1..Len(r.v) :
                   /\ r.v[i].t = "string"
                   /\ r.v[i].v # ""
                   /\ TrimSpace(r.v[i].v) = r.v[i].v
             /\ \A i, j \in 1..Len(r.v) : r.v[i] = r.v[j] => i = j

\* the type the table gives a type name of the pool, "" where it gives none
TypeTable(x) ==
  CASE x \in {"string", "STRING", " string "} -> "STRING"
    [] x \in {"object", "map"} -> "OBJECT"
    [] x = "Integer" -> "INTEGER"
    [] x = "bool" -> "BOOLEAN"
    [] x \in {"float", "NUMBER"} -> "NUMBER"
    [] x = "list" -> "ARRAY"
    [] OTHER -> ""

\* the positions of a type array that hold a string the table maps
Normalizing(typed) ==
  {i \in 1..Len(typed) : typed[i].t = "string" /\ TypeTable(typed[i].v) # ""}

\* C13 -- Type normalization: after sanitization the type of every schema
\* node is one of OBJECT, ARRAY, STRING, NUMBER, INTEGER, BOOLEAN, or absent.
\* A schema that is only a type gets, for a string, what the table maps it
\* to whatever its case and surrounding blanks, for an array, what the table
\* maps its first mapped candidate to, and no type when nothing maps.
C13_TypeNormalized ==
  sanStep >= 1
    => /\ \A node \in SchemaNodes(sanitized.doc) :
             \A ty \in Keyword(node, "type") :
                /\ ty.t = "string"
                /\ ty.v \in {"OBJECT", "ARRAY", "STRING", "NUMBER", "INTEGER", "BOOLEAN"}
       /\ \A key \in {"type", "Type"}, x \in TypeInputs :
             raw.doc = Obj1(key, x)
               => LET want == CASE x.t = "string" -> TypeTable(x.v)
                                [] x.t = "array" /\ Normalizing(x.v) # {} ->
                                     TypeTable(x.v[CHOOSE i \in Normalizing(x.v) :
                                                     \A j \in Normalizing(x.v) : i <= j].v)
                                [] OTHER -> ""
                  IN sanitized.doc = IF want = "" THEN VObj(<< >>)
                                     ELSE Obj1(key, VStr(want))

\* a type array whose first candidates do not normalize was resolved, and a
\* type was dropped somewhere
C13_Witness ==
  /\ sanStep >= 1
  /\ raw.doc = Obj1("type", VArr(<< VNum(1), VStr("date"), VStr("bool"), VStr("list") >>))
  /\ sanitized.doc = Obj1("type", VStr("BOOLEAN"))

(***************************************************************************)
(* Effort inference from the model name.  A model name is the sequence of  *)
(* its characters.                                                         *)
(***************************************************************************)
\* largest number of dash-separated segments of a model name
MaxSegs == 4

Dash == "-"
Segments ==
  {<< >>, <<"g", "p", "t">>, <<"5">>, <<"4">>, <<"l", "o", "w">>,
   <<"h", "i", "g", "h">>, <<"m", "e", "d", "i", "u", "m">>,
   <<"m", "i", "n", "i", "m", "a", "l">>, <<"m", "a", "x">>}

\* the segments joined by dashes
RECURSIVE Join(_)
Join(segs) ==
  IF Len(segs) = 1 THEN segs[1]
  ELSE segs[1] \o << Dash >> \o Join(Tail(segs))

ModelNames == {Join(segs) : segs \in UNION {[1..n -> Segments] : n \in 1..MaxSegs}}

Efforts ==
  {<<"m", "i", "n", "i", "m", "a", "l">>, <<"l", "o", "w">>,
   <<"m", "e", "d", "i", "u", "m">>, <<"h", "i", "g", "h">>}
Gpt5 == <<"g", "p", "t", Dash, "5">>

InferFailed == [base |-> << >>, effort |-> << >>, ok |-> FALSE]

\* faulty variant: any base is accepted
inferEffortFromModel_AnyBase(model) ==
  IF model = << >> THEN InferFailed
  ELSE LET dashes == {i \in 1..Len(model) : model[i] = Dash}
           idx == IF dashes = {} THEN -1
                  ELSE (CHOOSE i \in dashes : \A j \in dashes : j <= i) - 1
       IN IF idx <= 0 \/ idx >= Len(model) - 1 THEN InferFailed
          ELSE LET base == SubSeq(model, 1, idx)
                   suffix == SubSeq(model, idx + 2, Len(model))
               IN IF suffix \in Efforts
                  THEN [base |-> base, effort |-> suffix, ok |-> TRUE]
                  ELSE InferFailed

\* idx is the 0-based position of the last dash, -1 when there is none
inferEffortFromModel(model) ==
  IF model = << >> THEN InferFailed
  ELSE LET dashes == {i \in 1..Len(model) : model[i] = Dash}
           idx == IF dashes = {} THEN -1
                  ELSE (CHOOSE i \in dashes : \A j \in dashes : j <= i) - 1
       IN IF idx <= 0 \/ idx >= Len(model) - 1 THEN InferFailed
          ELSE LET base == SubSeq(model, 1, idx)
                   suffix == SubSeq(model, idx + 2, Len(model))
               IN IF suffix \in Efforts /\ base = Gpt5
                  THEN [base |-> base, effort |-> suffix, ok |-> TRUE]
                  ELSE InferFailed

\* the handler state of a function run: no request is served
NoRequest ==
  /\ endpoint = "chat"
  /\ streamField = "absent"
  /\ bodyErr = FALSE
  /\ hasFlusher = TRUE
  /\ InitRequest
  /\ raw = RawBlank
  /\ sanitized = RawBlank
  /\ resanitized = RawBlank
  /\ sanStep = "idle"

InitInfer ==
  /\ NoRequest
  /\ fnArg \in ModelNames
  /\ fnRet = "idle"
  /\ fnStep = "drawn"

\* base, effort, ok := inferEffortFromModel(model)
InferEffort ==
  /\ fnStep = "drawn"
  /\ fnRet' = inferEffortFromModel(fnArg)
  /\ fnStep' = "done"
  /\ UNCHANGED <<handlerVars, sanVars, fnArg>>

NextInfer == InferEffort

SpecInfer == InitInfer /\ [][NextInfer]_vars

\* C14 -- Suffix inference exactness: Infer(model) succeeds exactly when the
\* model is gpt-5, a dash, and one of minimal, low, medium, high (the split
\* at the last dash, which is neither the first nor the last character, has
\* base gpt-5 and such a suffix); it then returns (base, suffix, true), and
\* otherwise ok is false.
C14_InferExact ==
  fnStep = "done"
    => /\ fnRet.ok <=> \E e \in Efforts : fnArg = Gpt5 \o << Dash >> \o e
       /\ fnRet.ok => /\ fnRet.base = Gpt5
                      /\ fnRet.effort \in Efforts
                      /\ fnArg = fnRet.base \o << Dash >> \o fnRet.effort

C14_Witness ==
  /\ fnStep = "done"
  /\ fnArg = Join(<< <<"g", "p", "t">>, <<"5">>, <<"h", "i", "g", "h">> >>)
  /\ fnRet.ok

\* inference fails for a name that only ends like a supported one
C14_WitnessLongerBase ==
  /\ fnStep = "done"
  /\ fnArg = Join(<< <<"m", "a", "x">>, <<"g", "p", "t">>, <<"5">>, <<"l", "o", "w">> >>)
  /\ ~fnRet.ok

(***************************************************************************)
(* Responses request preprocessing.  A body is the gjson result at each    *)
(* path the function reads or writes.                                      *)
(***************************************************************************)
\* the characters of the strings a body's model can print as
Chars(name) ==
  CASE name = "" -> << >>
    [] name = "gpt-5" -> Gpt5
    [] name = "gpt-5-high" -> Gpt5 \o << Dash, "h", "i", "g", "h" >>
    [] name = "gpt-5-minimal" -> Gpt5 \o << Dash, "m", "i", "n", "i", "m", "a", "l" >>
    [] name = "gpt-5-max" -> Gpt5 \o << Dash, "m", "a", "x" >>
    [] name = "gpt-4-low" -> << "g", "p", "t", Dash, "4", Dash, "l", "o", "w" >>
    [] name = "-high" -> << Dash, "h", "i", "g", "h" >>
    [] name = "gpt-5-" -> Gpt5 \o << Dash >>
    [] name = "5" -> << "5" >>
    [] name = "high" -> << "h", "i", "g", "h" >>
    [] name = "minimal" -> << "m", "i", "n", "i", "m", "a", "l" >>
    [] name = "low" -> << "l", "o", "w" >>
    [] name = "medium" -> << "m", "e", "d", "i", "u", "m" >>

Texts ==
  {"", "gpt-5", "gpt-5-high", "gpt-5-minimal", "gpt-5-max", "gpt-4-low",
   "-high", "gpt-5-", "5", "high", "minimal", "low", "medium"}

\* the string with the given characters
Text(chars) == CHOOSE name \in Texts : Chars(name) = chars

NilCfg == [nil |-> TRUE]
Cfgs ==
  {NilCfg} \cup
  [nil : {FALSE},
   Verbosity : {"", "low", "verbose"},
   ReasoningSummary : {"", "detailed", "none"},
   InferEffortFromModelSuffix : BOOLEAN]

ModelFields ==
  {Absent, JNull, JNum("5", 5)}
    \cup {JStr(x) : x \in {"", "gpt-5", "gpt-5-high", "gpt-5-minimal", "gpt-5-max",
                           "gpt-4-low", "-high", "gpt-5-"}}

Bodies ==
  [model : ModelFields,
   verbosity : {Absent, JStr("high")},
   summary : {Absent, JNull},
   effort : {Absent, JNull, JStr("low"), JStr("")}]

\* step 1: defaults the client did not supply
InjectDefaults(cfg, body) ==
  IF cfg.nil THEN body
  ELSE LET b1 == IF ~Exists(body.verbosity)
                    /\ cfg.Verbosity \in {"low", "medium", "high"}
                 THEN [body EXCEPT !.verbosity = JStr(cfg.Verbosity)]
                 ELSE body
       IN IF ~Exists(b1.summary) /\ cfg.ReasoningSummary \in {"auto", "detailed"}
          THEN [b1 EXCEPT !.summary = JStr(cfg.ReasoningSummary)]
          ELSE b1

\* faulty variant: an effort the client set is overwritten
InferStep_Overwrite(cfg, body, modelName) ==
  IF cfg.nil \/ cfg.InferEffortFromModelSuffix
  THEN LET r == inferEffortFromModel(Chars(modelName)) IN
       IF r.ok
       THEN [body |-> [body EXCEPT !.effort = JStr(Text(r.effort)),
                                   !.model = JStr(Text(r.base))],
             modelName |-> Text(r.base)]
       ELSE [body |-> body, modelName |-> modelName]
  ELSE [body |-> body, modelName |-> modelName]

\* step 2: reasoning.effort from the model suffix
InferStep(cfg, body, modelName) ==
  IF (cfg.nil \/ cfg.InferEffortFromModelSuffix) /\ ~Exists(body.effort)
  THEN LET r == inferEffortFromModel(Chars(modelName)) IN
       IF r.ok
       THEN [body |-> [body EXCEPT !.effort = JStr(Text(r.effort)),
                                   !.model = JStr(Text(r.base))],
             modelName |-> Text(r.base)]
       ELSE [body |-> body, modelName |-> modelName]
  ELSE [body |-> body, modelName |-> modelName]

\* faulty variant: the defaults are injected before the model is looked at
preprocessResponsesRequest_DefaultsFirst(cfg, body) ==
  LET modelName == String(body.model) IN
  IF modelName = "" THEN [body |-> InjectDefaults(cfg, body), modelName |-> modelName]
  ELSE InferStep(cfg, InjectDefaults(cfg, body), modelName)

\* cfg is h.Cfg; the result is the pair (body, modelName)
preprocessResponsesRequest(cfg, body) ==
  LET modelName == String(body.model) IN
  IF modelName = "" THEN [body |-> body, modelName |-> modelName]
  ELSE InferStep(cfg, InjectDefaults(cfg, body), modelName)

InitPre ==
  /\ NoRequest
  /\ fnArg \in [cfg : Cfgs, body : Bodies]
  /\ fnRet = "idle"
  /\ fnStep = "drawn"

\* rawJSON, modelName = h.preprocessResponsesRequest(rawJSON)
Preprocess ==
  /\ fnStep = "drawn"
  /\ fnRet' = preprocessResponsesRequest(fnArg.cfg, fnArg.body)
  /\ fnStep' = "done"
  /\ UNCHANGED <<handlerVars, sanVars, fnArg>>

NextPre == Preprocess

SpecPre == InitPre /\ [][NextPre]_vars

\* the effort suffix of the model names Infer accepts, "" for the others
SuffixOf(name) ==
  CASE name = "gpt-5-high" -> "high"
    [] name = "gpt-5-minimal" -> "minimal"
    [] OTHER -> ""

\* C15 -- Preprocess effort step: reasoning.effort is set to the suffix and
\* model rewritten to the base exactly when inference is enabled (no
\* configuration, or the flag set), the request has no reasoning.effort, and
\* Infer succeeds on the model; otherwise model and reasoning.effort are
\* unchanged.  The returned model name is the model field of the returned
\* body.
C15_EffortStep ==
  fnStep = "done"
    => LET cfg == fnArg.cfg
           body == fnArg.body
           applies == /\ cfg.nil \/ cfg.InferEffortFromModelSuffix
                      /\ ~Exists(body.effort)
                      /\ SuffixOf(String(body.model)) # ""
       IN /\ applies => /\ fnRet.body.effort = JStr(SuffixOf(String(body.model)))
                        /\ fnRet.body.model = JStr("gpt-5")
          /\ ~applies => /\ fnRet.body.effort = body.effort
                         /\ fnRet.body.model = body.model
          /\ fnRet.modelName = String(fnRet.body.model)

\* the effort was inferred with no configuration at all
C15_Witness ==
  /\ fnStep = "done"
  /\ fnArg.cfg.nil
  /\ fnArg.body.model = JStr("gpt-5-minimal")
  /\ fnRet.body.effort = JStr("minimal")
  /\ fnRet.modelName = "gpt-5"

\* an effort the client set, even null, kept the model as it was
C15_WitnessClientEffort ==
  /\ fnStep = "done"
  /\ ~fnArg.cfg.nil /\ fnArg.cfg.InferEffortFromModelSuffix
  /\ fnArg.body.model = JStr("gpt-5-high")
  /\ fnArg.body.effort = JNull
  /\ fnRet.body = fnArg.body

\* C16 -- Preprocess no-op on missing model: when the model is absent or
\* empty the body is returned unchanged, whatever the configuration.
C16_NoModelNoOp ==
  fnStep = "done" /\ String(fnArg.body.model) = ""
    => fnRet.body = fnArg.body /\ fnRet.modelName = ""

\* a body without model met a configuration whose defaults would apply
C16_Witness ==
  /\ fnStep = "done"
  /\ fnArg.body.model = Absent
  /\ ~fnArg.cfg.nil
  /\ fnArg.cfg.Verbosity = "low" /\ fnArg.cfg.ReasoningSummary = "detailed"
  /\ fnArg.cfg.InferEffortFromModelSuffix
  /\ ~Exists(fnArg.body.verbosity) /\ ~Exists(fnArg.body.summary)
  /\ fnRet.body = fnArg.body

(***************************************************************************)
(* The stream-chunk adapter applied to one chat chunk.                     *)
(***************************************************************************)
\* largest number of choices of a chunk or response
MaxChoices == 2

DeltaContents == {Absent, JNull, JStr(""), JStr("Hi")}
FinishReasons == {Absent, JNull, JStr(""), JStr("stop"), JStr("null")}

\* choices of a stream chunk: without delta there is no delta.content
ChunkChoices ==
  {Choice(JNum("0", 0), FALSE, Absent, dl, dc, fr, Absent) :
     dl \in BOOLEAN, dc \in DeltaContents, fr \in FinishReasons}
  \ {Choice(JNum("0", 0), FALSE, Absent, FALSE, dc, fr, Absent) :
     dc \in DeltaContents \ {Absent}, fr \in FinishReasons}

ChunkInputs ==
  {[seq |-> 1, event |-> FALSE, id |-> JStr("c1"), created |-> JNum("17", 17),
    model |-> JStr("m"), choices |-> q] :
     q \in UNION {[1..n -> ChunkChoices] : n \in 0..MaxChoices}}

InitChunk ==
  /\ NoRequest
  /\ fnArg \in ChunkInputs
  /\ fnRet = "idle"
  /\ fnStep = "drawn"

\* converted := convertChatCompletionsStreamChunkToCompletions(chunk)
ConvertChunk ==
  /\ fnStep = "drawn"
  /\ fnRet' = convertChatCompletionsStreamChunkToCompletions(fnArg)
  /\ fnStep' = "done"
  /\ UNCHANGED <<handlerVars, sanVars, fnArg>>

NextChunk == ConvertChunk

SpecChunk == InitChunk /\ [][NextChunk]_vars

\* a choice carries a non-empty delta.content
HasText(ch) == ch.delta /\ Exists(ch.content) /\ String(ch.content) # ""
\* a choice carries a finish_reason that is neither null nor empty
HasFinish(ch) ==
  /\ ch.finish_reason.t \notin {"absent", "null"}
  /\ String(ch.finish_reason) # ""

\* C17 -- Stream chunk filtering: the adapter returns skip exactly when no
\* choice carries a non-empty delta.content and no choice carries a
\* non-null, non-empty finish_reason; when it does not skip, every output
\* choice has a text (the empty string when delta.content is absent or
\* empty) and carries the input's finish_reason when that is non-null.
C17_ChunkFiltering ==
  fnStep = "done"
    => LET ins == fnArg.choices IN
       /\ fnRet.nil <=> \A i \in 1..Len(ins) : ~HasText(ins[i]) /\ ~HasFinish(ins[i])
       /\ ~fnRet.nil =>
            /\ Len(fnRet.choices) = Len(ins)
            /\ \A i \in 1..Len(ins) :
                  /\ fnRet.choices[i].text =
                       IF HasText(ins[i]) THEN JStr(String(ins[i].content)) ELSE JStr("")
                  /\ ins[i].finish_reason.t \notin {"absent", "null"}
                       => fnRet.choices[i].finish_reason
                            = JStr(String(ins[i].finish_reason))

(***************************************************************************)
(* The request adapter applied to one legacy Completions request.          *)
(***************************************************************************)
InitReq ==
  /\ NoRequest
  /\ fnArg \in CompletionsRequests
  /\ fnRet = "idle"
  /\ fnStep = "drawn"

\* chatCompletionsJSON := convertCompletionsRequestToChatCompletions(rawJSON)
ConvertRequest ==
  /\ fnStep = "drawn"
  /\ fnRet' = convertCompletionsRequestToChatCompletions(fnArg)
  /\ fnStep' = "done"
  /\ UNCHANGED <<handlerVars, sanVars, fnArg>>

NextReq == ConvertRequest

SpecReq == InitReq /\ [][NextReq]_vars

\* the one user message whose content is the prompt, or the fallback
OneUserMessage ==
  fnRet.messages =
    << [role |-> "user",
        content |-> IF ~Exists(fnArg.prompt) \/ String(fnArg.prompt) = ""
                    THEN "Complete this:" ELSE String(fnArg.prompt)] >>

\* C18 -- Request conversion, model copied like the rest: the output has exactly one
\* message, with role user and the prompt as content (the fallback when the
\* prompt is absent or empty), and each of model, max_tokens, temperature,
\* top_p, frequency_penalty, presence_penalty, stop, stream, logprobs,
\* top_logprobs, echo is in the output iff it is in the input.
C18_RequestConversion ==
  fnStep = "done"
    => /\ OneUserMessage
       /\ \A f \in CopiedFields : Exists(fnRet[f]) <=> Exists(fnArg[f])

\* C18 -- Request conversion, model always there: the output has exactly one message,
\* with role user and the prompt as content (the fallback when the prompt is
\* absent or empty); the output always has a model, the empty string when
\* the input has none; each of the other ten fields is in the output iff it
\* is in the input.
C18_RequestConversionModelAlways ==
  fnStep = "done"
    => /\ OneUserMessage
       /\ fnRet.model = JStr(String(fnArg.model))
       /\ \A f \in CopiedFields \ {"model"} : Exists(fnRet[f]) <=> Exists(fnArg[f])

\* a request with neither model nor prompt was converted
C18_Witness ==
  /\ fnStep = "done"
  /\ ~Exists(fnArg.model) /\ ~Exists(fnArg.prompt)
  /\ Exists(fnArg.stop) /\ ~Exists(fnArg.stream)
  /\ fnRet.model = JStr("")
  /\ fnRet.messages[1].content = "Complete this:"

(***************************************************************************)
(* The response adapter applied to one chat response.  A "choices" that is *)
(* absent or not an array is the empty sequence: the adapter leaves the    *)
(* template's [] for both.                                                 *)
(***************************************************************************)
ResponseChoices ==
  {Choice(ix, TRUE, mc, FALSE, Absent, fr, Absent) :
     ix \in {Absent, JNum("0", 0), JNum("1", 1)},
     mc \in {Absent, JStr("hi")}, fr \in {Absent, JStr("stop")}}
  \cup
  {Choice(ix, FALSE, Absent, dl, Absent, fr, Absent) :
     ix \in {JNum("0", 0), JNum("1", 1)}, dl \in BOOLEAN,
     fr \in {Absent, JNull}}

ChatResponses ==
  {[id |-> id, created |-> created, model |-> model, usage |-> Absent,
    choices |-> q] :
     id \in {Absent, JStr("r1")}, created \in {Absent, JNum("17", 17)},
     model \in {Absent, JStr("m")},
     q \in UNION {[1..n -> ResponseChoices] : n \in 0..MaxChoices}}

InitResp ==
  /\ NoRequest
  /\ fnArg \in ChatResponses
  /\ fnRet = "idle"
  /\ fnStep = "drawn"

\* completionsResp := convertChatCompletionsResponseToCompletions(resp)
ConvertResponse ==
  /\ fnStep = "drawn"
  /\ fnRet' = convertChatCompletionsResponseToCompletions(fnArg)
  /\ fnStep' = "done"
  /\ UNCHANGED <<handlerVars, sanVars, fnArg>>

NextResp == ConvertResponse

SpecResp == InitResp /\ [][NextResp]_vars

\* C19 -- Response conversion: the output always has object
\* "text_completion" and id, created, model and choices (the input's, or ""
\* / 0 / "" / [] when the input has none), and exactly one output choice per
\* input choice, in the same order.
C19_ResponseConversion ==
  fnStep = "done"
    => /\ fnRet.object = "text_completion"
       /\ fnRet.id = (IF fnArg.id = Absent THEN "" ELSE fnArg.id.s)
       /\ fnRet.created = (IF fnArg.created = Absent THEN 0 ELSE fnArg.created.n)
       /\ fnRet.model = (IF fnArg.model = Absent THEN "" ELSE fnArg.model.s)
       /\ Len(fnRet.choices) = Len(fnArg.choices)
       /\ \A i \in 1..Len(fnArg.choices) :
             LET ch == fnArg.choices[i] IN
             /\ fnRet.choices[i].index = ch.index.n
             /\ ch.message => fnRet.choices[i].text.t = ch.mcontent.t
             /\ fnRet.choices[i].finish_reason.t = "absent"
                  <=> ch.finish_reason.t = "absent"

\* two choices, given out of index order and the first without message, came
\* out in the order given; id and model were filled with the defaults
C19_Witness ==
  /\ fnStep = "done"
  /\ fnArg.id = Absent /\ fnArg.model = Absent
  /\ Len(fnArg.choices) = 2
  /\ ~fnArg.choices[1].message /\ fnArg.choices[2].message
  /\ fnArg.choices[1].index = JNum("1", 1) /\ fnArg.choices[2].index = JNum("0", 0)
  /\ fnRet.choices[1].index = 1 /\ fnRet.choices[2].index = 0
  /\ fnRet.id = ""

(***************************************************************************)
(* Write and flush discipline of the relays.                               *)
(***************************************************************************)
\* C20 -- Write/flush discipline: while a relay runs, a step writes to the
\* client (a data chunk, the termination marker or an error body) exactly
\* when it flushes, once, so every write is flushed before the next input is
\* taken; in the legacy Completions relay a chunk the adapter skips causes no
\* write and no flush, and the relay stays Running.
C20_WriteFlush ==
  [][pc = "Running"
       => /\ out' # out <=> flushes' = flushes + 1
          /\ out' = out => flushes' = flushes
          /\ (endpoint = "completions" /\ recv' # recv
              /\ ~ChunkHasContent(recv'[Len(recv')]))
               => out' = out /\ flushes' = flushes /\ pc' = "Running"]_vars

\* the legacy Completions relay has skipped a chunk and forwarded another,
\* and is still running
C20_Witness ==
  /\ endpoint = "completions"
  /\ pc = "Running"
  /\ Len(recv) >= 2
  /\ \E i \in 1..Len(recv) : ~ChunkHasContent(recv[i])
  /\ Len(out) = 1
  /\ flushes = 1

\* an error body was written by a relay and flushed
C20_WitnessErrorBody ==
  /\ pc = "Closed"
  /\ exitPath = "errs"
  /\ \E i \in 1..Len(out) : out[i].k = "error"
  /\ flushes = Len(Forwarded(endpoint, recv)) + 1

(***************************************************************************)
(* The termination marker.                                                 *)
(***************************************************************************)
\* what a relay has written after the frames of the chunks it received
AfterFrames ==
  SubSeq(out, Len(ExpectedStream(endpoint, recv)) + 1, Len(out))

\* C21 -- Termination marker: a relay writes the marker of its dialect at
\* most once, only when it leaves by the closure of the data channel, and
\* then as its last write; a run that ends by a backend error or by client
\* disconnect writes no marker; a relay that has called cancel writes
\* nothing more.
C21_MarkerOnceLast ==
  /\ [](pc \in {"Running", "Closed"}
          => /\ Len(out) >= Len(ExpectedStream(endpoint, recv))
             /\ SubSeq(out, 1, Len(ExpectedStream(endpoint, recv)))
                  = ExpectedStream(endpoint, recv)
             /\ exitPath = "data" => AfterFrames = << Marker(endpoint) >>
             /\ exitPath # "data"
                  => \A i \in 1..Len(AfterFrames) : AfterFrames[i] # Marker(endpoint)
             /\ Cardinality({i \in 1..Len(out) : out[i] = DoneFrame})
                  <= (IF exitPath = "data" /\ endpoint # "responses" THEN 1 ELSE 0))
  /\ [][cancelCalls # << >> => out' = out]_vars

\* a Responses relay wrote its closing line after a chunk that itself is
\* framed by such lines
C21_Witness ==
  /\ endpoint = "responses"
  /\ exitPath = "data"
  /\ \E i \in 1..Len(recv) : recv[i].event
  /\ out[Len(out)] = Newline
  /\ Len(out) >= 4

\* a relay left by a backend error after forwarding a chunk: no marker
C21_WitnessError ==
  /\ endpoint = "chat"
  /\ exitPath = "errs"
  /\ recv # << >>
  /\ out[Len(out)].k = "error"

(***************************************************************************)
(* Liveness of the relays.  A select statement chooses among its ready     *)
(* cases by a uniform pseudo-random selection, so a case that stays ready  *)
(* is chosen in the end: weak fairness of each case of each relay.  The    *)
(* backend and the client are under no obligation.                         *)
(***************************************************************************)
SelectFairness ==
  /\ WF_vars(handleStreamResult_CtxDone)
  /\ WF_vars(handleStreamResult_Data)
  /\ WF_vars(handleStreamResult_Errs)
  /\ WF_vars(CompletionsStreamLoop_CtxDone)
  /\ WF_vars(CompletionsStreamLoop_Data)
  /\ WF_vars(CompletionsStreamLoop_Errs)
  /\ WF_vars(forwardResponsesStream_CtxDone)
  /\ WF_vars(forwardResponsesStream_Data)
  /\ WF_vars(forwardResponsesStream_Errs)

SpecLive == Init /\ [][Next]_vars /\ SelectFairness

\* an input that ends the run is there: the context is cancelled, the data
\* channel is closed, or a message waits on the error channel
EndingInput == ctxDone \/ dataClosed \/ errQ # << >>

\* C22 -- Relay liveness: under fair choice among the ready cases of the
\* select, a running relay whose client context is cancelled, whose data
\* channel is closed, or on whose error channel a message is delivered,
\* reaches Closed (it has called cancel and returned); also when the error
\* channel was closed before, where the relay loops on the closed channel
\* and does not end by itself.
C22_RelayLiveness ==
  /\ (pc = "Running" /\ EndingInput) ~> (pc = "Closed")
  /\ [][(pc = "Running" /\ errClosed /\ pc' = "Closed") => EndingInput]_vars

\* a relay that had looped on the closed error channel ended by the closure
\* of the data channel
C22_Witness ==
  /\ pc = "Closed"
  /\ exitPath = "data"
  /\ errClosed
  /\ errClosedSeen > 0
  /\ errPut = << >>
  /\ ~ctxDone

(***************************************************************************)
(* Determinism of the sanitizer.                                           *)
(***************************************************************************)
\* C23 -- Sanitizer determinism: the same schema always sanitizes to the
\* same output, in whatever order the keys of an object are visited, also
\* for an object that holds both const and enum, or two keys that differ
\* only in case.
C23_Deterministic ==
  sanStep >= 1 => SanitizeSchemaForGemini(raw) = {sanitized}

(***************************************************************************)
(* The stream flag of the legacy Completions endpoint.                     *)
(***************************************************************************)
\* C24 -- Stream flag and path agree: on the legacy Completions endpoint,
\* whatever the request's stream field is (absent, true, false, the string
\* "true", the number 1), the chat request handed to the backend carries
\* stream = true exactly when the handler went through the streaming path
\* (ExecuteStream and the relay).
C24_StreamFlagAgrees ==
  (endpoint = "completions" /\ backendCalls # << >>)
    => (backendCalls[1].payload.stream = JTrue
          <=> backendCalls[1].op = "ExecuteStream")

====
